---------------------------- MODULE Spec2Model ----------------------------
(***************************************************************************)
(* A model of the scoring core of app.py: AdvancedCreditScorer (field      *)
(* defaulting, the three component scorers, the ensemble decision, the     *)
(* fraud detector), the batch loop of show_batch_processing and            *)
(* AdvancedMetrics.ks_statistic.                                           *)
(*                                                                         *)
(* Numbers are integers in fixed units, so that every comparison of the    *)
(* source is exact:                                                        *)
(*   ratios (credit_utilization, debt_to_income)      hundredths           *)
(*   years  (employment_length, credit_history_length) tenths of a year    *)
(*   ensemble weights                                  hundredths          *)
(*   ensemble_score, final_score                       hundredths of a pt  *)
(*   default_probability (after round(., 1))           tenths of a percent *)
(*   the random draw U and the raw fraud score         1e-5                *)
(*   fraud_score (after round(., 4))                   1e-4                *)
(* Component scores, credit_score, income and the counts are plain         *)
(* integers.                                                               *)
(***************************************************************************)
EXTENDS Integers, Sequences, FiniteSets, TLC

VARIABLES
    input_data,        \* the caller's applicant dict (a function on the keys present)
    ensemble_weights,  \* AdvancedCreditScorer.ensemble_weights
    credit_result,     \* what the last predict_credit_risk returned
    fraud_result,      \* what the last detect_advanced_fraud returned
    df,                \* the batch: the rows of the uploaded frame
    results,           \* the batch loop's results list
    scores,            \* the batch loop's scores list
    y_true,            \* ks_statistic: the labels
    y_pred,            \* ks_statistic: the scores
    ks_rank,           \* ks_statistic: the row order after sort_values
    ks_result,         \* ks_statistic: what it returned
    expected_scores,   \* psi_from_scores: the reference scores
    actual_scores,     \* psi_from_scores: the scores compared with them
    bins,              \* psi_from_scores: the number of quantile buckets asked for
    psi_result         \* psi_from_scores: what it returned

vars == <<input_data, ensemble_weights, credit_result, fraud_result,
          df, results, scores, y_true, y_pred, ks_rank, ks_result,
          expected_scores, actual_scores, bins, psi_result>>

scorerVars == <<input_data, ensemble_weights, credit_result, fraud_result>>
batchVars  == <<df, results, scores>>
ksVars     == <<y_true, y_pred, ks_rank, ks_result>>
psiVars    == <<expected_scores, actual_scores, bins, psi_result>>

---------------------------------------------------------------------------
(* Small helpers for Python's max, min and dict.get.                       *)

Max(a, b) == IF a >= b THEN a ELSE b

Min(a, b) == IF a <= b THEN a ELSE b

\* input_data.get(key, default)
Get(d, key, default) == IF key \in DOMAIN d THEN d[key] ELSE default

---------------------------------------------------------------------------
(* AdvancedCreditScorer.__init__                                           *)

InitialWeights ==
    [behavioral_score |-> 40, financial_score |-> 35, stability_score |-> 25]

---------------------------------------------------------------------------
(* AdvancedCreditScorer._ensure_required_fields                            *)

Defaults ==
    [age                    |-> 35,
     income                 |-> 500000,
     credit_score           |-> 650,
     debt_to_income         |-> 30,
     loan_amount            |-> 500000,
     employment_length      |-> 50,
     number_of_credit_lines |-> 5,
     late_payments_90d      |-> 0,
     credit_utilization     |-> 40,
     recent_inquiries       |-> 2,
     existing_loans         |-> 1,
     savings_balance        |-> 100000,
     monthly_expenses       |-> 30000,
     education_level        |-> "Graduate",
     marital_status         |-> "Married",
     dependents             |-> 1,
     property_ownership     |-> "Owned",
     business_owner         |-> FALSE,
     credit_history_length  |-> 70,
     industry_risk          |-> "Medium",
     geographic_risk        |-> "Medium"]

Fields == DOMAIN Defaults
\* EnsureRequiredFields writing the default over a value that is present
\* (input_data.update(defaults)).
EnsureRequiredFieldsOverwrite(d) ==
    [k \in (DOMAIN d) \cup Fields |-> IF k \in Fields THEN Defaults[k] ELSE d[k]]

\* for field, default_value in defaults.items():
\*     if field not in input_data: input_data[field] = default_value
EnsureRequiredFields(d) ==
    [k \in (DOMAIN d) \cup Fields |-> IF k \in DOMAIN d THEN d[k] ELSE Defaults[k]]

---------------------------------------------------------------------------
(* The component scorers.                                                  *)

\* ClampScore with the floor mistyped as 3000.
ClampScoreWrongFloor(score) == Max(3000, Min(850, score))

\* max(300, min(850, score))
ClampScore(score) == Max(300, Min(850, score))

calculate_behavioral_score(d) ==
    LET late_payments == Get(d, "late_payments_90d", 0)
        utilization   == Get(d, "credit_utilization", 40)
        s1 == IF late_payments = 0 THEN 650 + 50
              ELSE IF late_payments <= 2 THEN 650 + 20
              ELSE IF late_payments > 5 THEN 650 - 60
              ELSE 650
        s2 == IF utilization < 20 THEN s1 + 30
              ELSE IF utilization < 40 THEN s1 + 15
              ELSE IF utilization > 80 THEN s1 - 40
              ELSE s1
    IN  ClampScore(s2)

\* calculate_financial_score with the debt-to-income penalty mistyped as 400.
calculate_financial_scoreHeavyPenalty(d) ==
    LET income == Get(d, "income", 500000)
        dti    == Get(d, "debt_to_income", 30)
        s1 == IF income > 1000000 THEN 650 + 40
              ELSE IF income > 750000 THEN 650 + 20
              ELSE IF income < 300000 THEN 650 - 30
              ELSE 650
        s2 == IF dti < 20 THEN s1 + 35
              ELSE IF dti < 35 THEN s1 + 15
              ELSE IF dti > 50 THEN s1 - 400
              ELSE s1
    IN  ClampScore(s2)

calculate_financial_score(d) ==
    LET income == Get(d, "income", 500000)
        dti    == Get(d, "debt_to_income", 30)
        s1 == IF income > 1000000 THEN 650 + 40
              ELSE IF income > 750000 THEN 650 + 20
              ELSE IF income < 300000 THEN 650 - 30
              ELSE 650
        s2 == IF dti < 20 THEN s1 + 35
              ELSE IF dti < 35 THEN s1 + 15
              ELSE IF dti > 50 THEN s1 - 40
              ELSE s1
    IN  ClampScore(s2)

calculate_stability_score(d) ==
    LET employment_length == Get(d, "employment_length", 50)
        property_owned    == Get(d, "property_ownership", "Owned") = "Owned"
        s1 == IF employment_length > 100 THEN 650 + 40
              ELSE IF employment_length > 50 THEN 650 + 20
              ELSE IF employment_length < 20 THEN 650 - 35
              ELSE 650
        s2 == IF property_owned THEN s1 + 25 ELSE s1
    IN  ClampScore(s2)

---------------------------------------------------------------------------
(* AdvancedCreditScorer.predict_credit_risk                                *)

\* behavioral * w_b + financial * w_f + stability * w_s, in hundredths of a
\* point (the weights are hundredths). The float sum of the source is exact
\* for the weights 0.4 / 0.35 / 0.25 and scores that are multiples of 5.
EnsembleScore(b, f, s, w) ==
    b * w.behavioral_score + f * w.financial_score + s * w.stability_score
\* RiskAdjustment with the High industry adjustment added instead of subtracted.
RiskAdjustmentSignSlip(d) ==
    LET industry_risk   == Get(d, "industry_risk", "Medium")
        geographic_risk == Get(d, "geographic_risk", "Medium")
        a1 == IF industry_risk = "High" THEN 25
              ELSE IF industry_risk = "Low" THEN 15
              ELSE 0
        a2 == IF geographic_risk = "High" THEN a1 - 20
              ELSE IF geographic_risk = "Low" THEN a1 + 10
              ELSE a1
    IN  a2

\* risk_adjustment, in points
RiskAdjustment(d) ==
    LET industry_risk   == Get(d, "industry_risk", "Medium")
        geographic_risk == Get(d, "geographic_risk", "Medium")
        a1 == IF industry_risk = "High" THEN 0 - 25
              ELSE IF industry_risk = "Low" THEN 15
              ELSE 0
        a2 == IF geographic_risk = "High" THEN a1 - 20
              ELSE IF geographic_risk = "Low" THEN a1 + 10
              ELSE a1
    IN  a2

\* final_score = max(300, min(850, ensemble_score + risk_adjustment)), hundredths
FinalScore(ensemble, adjustment) ==
    Max(30000, Min(85000, ensemble + 100 * adjustment))
\* RiskLevel with > in place of >= at every threshold.
RiskLevelStrict(final) ==
    IF final > 75000 THEN "Excellent"
    ELSE IF final > 70000 THEN "Good"
    ELSE IF final > 65000 THEN "Medium"
    ELSE IF final > 60000 THEN "Watch"
    ELSE "High"

\* the if / elif chain on final_score (hundredths)
RiskLevel(final) ==
    IF final >= 75000 THEN "Excellent"
    ELSE IF final >= 70000 THEN "Good"
    ELSE IF final >= 65000 THEN "Medium"
    ELSE IF final >= 60000 THEN "Watch"
    ELSE "High"

BusinessImpact(final) ==
    IF final >= 75000 THEN "Premium Profitability"
    ELSE IF final >= 70000 THEN "High Profitability"
    ELSE IF final >= 65000 THEN "Moderate Profitability"
    ELSE IF final >= 60000 THEN "Marginal Profitability"
    ELSE "High Risk - Review Required"

\* The final scores (hundredths) at which default_prob lies exactly halfway
\* between two tenths and round(default_prob, 1) returns the upper one: the
\* binary double nearest to x.x5 decides, so the direction is a table.
TieRoundsUp ==
    {70250, 70350, 70450, 70850, 70950, 71250, 71350, 71450, 71850, 71950,
     72250, 72350, 72450, 72850, 72950, 73250, 73350, 73450, 73850, 73950,
     74250, 74350, 74450, 74850, 74950, 75100, 75500, 75700, 76100, 76700,
     77100, 77300, 77500, 78100, 78300, 79100, 79300, 79500, 80100, 80300,
     81300, 81500, 81900, 82300, 82900}
\* RoundedDefaultProb without the clamp to the tier's sub-range.
RoundedDefaultProbUnclamped(final, divisor, lo, hi) ==
    LET n   == 85000 - final
        den == 100 * divisor
        q   == (10 * n) \div den
        r   == (10 * n) % den
    IN  IF 2 * r >= den THEN q + 1 ELSE q

\* round(max(lo, min(hi, (850 - final_score) / divisor)), 1) in tenths of a
\* percent; final is in hundredths, so the quotient is n / den with
\* n = 85000 - final and den = 100 * divisor.
RoundedDefaultProb(final, divisor, lo, hi) ==
    LET n   == 85000 - final
        den == 100 * divisor
        q   == (10 * n) \div den
        r   == (10 * n) % den
    IN  IF n > hi * den THEN 10 * hi
        ELSE IF n < lo * den THEN 10 * lo
        ELSE IF 2 * r > den THEN q + 1
        ELSE IF 2 * r < den THEN q
        ELSE IF final \in TieRoundsUp THEN q + 1
        ELSE q

\* DefaultProbability with the Medium tier clamped to [15, 30] instead of
\* [15, 25].
DefaultProbabilityWideMedium(final) ==
    IF final >= 75000 THEN RoundedDefaultProb(final, 20, 1, 5)
    ELSE IF final >= 70000 THEN RoundedDefaultProb(final, 10, 5, 15)
    ELSE IF final >= 65000 THEN RoundedDefaultProb(final, 6, 15, 30)
    ELSE IF final >= 60000 THEN RoundedDefaultProb(final, 4, 25, 35)
    ELSE RoundedDefaultProb(final, 3, 35, 50)

DefaultProbability(final) ==
    IF final >= 75000 THEN RoundedDefaultProb(final, 20, 1, 5)
    ELSE IF final >= 70000 THEN RoundedDefaultProb(final, 10, 5, 15)
    ELSE IF final >= 65000 THEN RoundedDefaultProb(final, 6, 15, 25)
    ELSE IF final >= 60000 THEN RoundedDefaultProb(final, 4, 25, 35)
    ELSE RoundedDefaultProb(final, 3, 35, 50)

\* IntScore rounding to the nearest integer (round(final_score)) instead of
\* truncating.
IntScoreRounded(final) == (final + 50) \div 100

\* int(final_score): truncation of a positive float
IntScore(final) == final \div 100

\* The dict predict_credit_risk returns for the (already defaulted) record d
\* under the weights w.
CreditDecision(d, w) ==
    LET behavioral_score == calculate_behavioral_score(d)
        financial_score  == calculate_financial_score(d)
        stability_score  == calculate_stability_score(d)
        ensemble_score   == EnsembleScore(behavioral_score, financial_score,
                                          stability_score, w)
        final_score      == FinalScore(ensemble_score, RiskAdjustment(d))
    IN  [credit_score        |-> IntScore(final_score),
         risk_level          |-> RiskLevel(final_score),
         default_probability |-> DefaultProbability(final_score),
         business_impact     |-> BusinessImpact(final_score),
         component_scores    |->
             [behavioral_score |-> behavioral_score,
              financial_score  |-> financial_score,
              stability_score  |-> stability_score,
              ensemble_score   |-> ensemble_score,
              final_score      |-> final_score],
         success             |-> TRUE]

\* predict_credit_risk(input_data) as a function of the caller's record
predict_credit_risk(d, w) == CreditDecision(EnsureRequiredFields(d), w)

---------------------------------------------------------------------------
(* AdvancedCreditScorer.detect_advanced_fraud                              *)
\* FraudPatternTable with >= 8 in the inquiries predicate.
FraudPatternTableInclusive(d) ==
    << <<Get(d, "income", 500000) > 2000000 /\ Get(d, "age", 35) < 25,
         "Extreme Income for Age">>,
       <<Get(d, "employment_length", 50) < 10 /\ Get(d, "income", 500000) > 1000000,
         "High Income with Short Employment">>,
       <<Get(d, "credit_score", 650) > 800 /\ Get(d, "credit_history_length", 70) < 20,
         "Perfect Score with Short History">>,
       <<Get(d, "recent_inquiries", 2) >= 8,
         "Excessive Credit Inquiries">> >>

\* the patterns list: <<condition, name>> in declaration order
\* FraudPatternTable with recent_inquiries falling back to 10 when absent.
FraudPatternTableOtherFallback(d) ==
    << <<Get(d, "income", 500000) > 2000000 /\ Get(d, "age", 35) < 25,
         "Extreme Income for Age">>,
       <<Get(d, "employment_length", 50) < 10 /\ Get(d, "income", 500000) > 1000000,
         "High Income with Short Employment">>,
       <<Get(d, "credit_score", 650) > 800 /\ Get(d, "credit_history_length", 70) < 20,
         "Perfect Score with Short History">>,
       <<Get(d, "recent_inquiries", 10) > 8,
         "Excessive Credit Inquiries">> >>

FraudPatternTable(d) ==
    << <<Get(d, "income", 500000) > 2000000 /\ Get(d, "age", 35) < 25,
         "Extreme Income for Age">>,
       <<Get(d, "employment_length", 50) < 10 /\ Get(d, "income", 500000) > 1000000,
         "High Income with Short Employment">>,
       <<Get(d, "credit_score", 650) > 800 /\ Get(d, "credit_history_length", 70) < 20,
         "Perfect Score with Short History">>,
       <<Get(d, "recent_inquiries", 2) > 8,
         "Excessive Credit Inquiries">> >>

\* for condition, pattern in patterns: if condition: fraud_patterns.append(pattern)
RECURSIVE CollectPatterns(_, _)
CollectPatterns(patterns, i) ==
    IF i > Len(patterns) THEN <<>>
    ELSE IF patterns[i][1]
         THEN <<patterns[i][2]>> \o CollectPatterns(patterns, i + 1)
         ELSE CollectPatterns(patterns, i + 1)

\* for condition, pattern in patterns: if condition: fraud_indicators += 1
RECURSIVE CountIndicators(_, _)
CountIndicators(patterns, i) ==
    IF i > Len(patterns) THEN 0
    ELSE (IF patterns[i][1] THEN 1 ELSE 0) + CountIndicators(patterns, i + 1)

\* RawFraudScore without the cap min(1.0, .).
RawFraudScoreUncapped(indicators, u) == indicators * 25000 + u

\* fraud_score = min(1.0, fraud_indicators * 0.25 + U), in 1e-5
RawFraudScore(indicators, u) == Min(100000, indicators * 25000 + u)

\* round(fraud_score, 4), from 1e-5 to 1e-4 (an exact half goes to the even
\* neighbour)
Round4(x) ==
    LET q == x \div 10
        r == x % 10
    IN  IF r > 5 THEN q + 1
        ELSE IF r < 5 THEN q
        ELSE IF q % 2 = 0 THEN q ELSE q + 1

\* The dict detect_advanced_fraud returns for record d and the draw u.
detect_advanced_fraud(d, u) ==
    LET patterns         == FraudPatternTable(d)
        fraud_indicators == CountIndicators(patterns, 1)
        fraud_patterns   == CollectPatterns(patterns, 1)
        fraud_score      == RawFraudScore(fraud_indicators, u)
    IN  [is_fraud         |-> fraud_score > 65000,
         fraud_score      |-> Round4(fraud_score),
         fraud_indicators |-> Len(fraud_patterns),
         fraud_patterns   |-> fraud_patterns,
         confidence       |-> IF fraud_score > 80000 THEN "High"
                              ELSE IF fraud_score > 60000 THEN "Medium"
                              ELSE "Low",
         success          |-> TRUE]

---------------------------------------------------------------------------
(* AdvancedVisualizations.create_risk_distribution                         *)

\* the category the loop appends for one score of the list
RiskCategory(score) ==
    IF score >= 750 THEN "Excellent"
    ELSE IF score >= 700 THEN "Good"
    ELSE IF score >= 650 THEN "Medium"
    ELSE IF score >= 600 THEN "Watch"
    ELSE "High"

---------------------------------------------------------------------------
(* The applicant records the calls are made on.                            *)

\* Values that differ from the default of every attribute.
AltValues ==
    [age                    |-> 22,
     income                 |-> 2500000,
     credit_score           |-> 820,
     debt_to_income         |-> 60,
     loan_amount            |-> 50000,
     employment_length      |-> 5,
     number_of_credit_lines |-> 12,
     late_payments_90d      |-> 6,
     credit_utilization     |-> 90,
     recent_inquiries       |-> 9,
     existing_loans         |-> 3,
     savings_balance        |-> 0,
     monthly_expenses       |-> 80000,
     education_level        |-> "Postgraduate",
     marital_status         |-> "Single",
     dependents             |-> 0,
     property_ownership     |-> "Rented",
     business_owner         |-> TRUE,
     credit_history_length  |-> 10,
     industry_risk          |-> "High",
     geographic_risk        |-> "Low"]

\* An attribute of a record under construction is <<>> (absent) or <<value>>.
MakeRecord(opts) ==
    [k \in {x \in DOMAIN opts : opts[x] # <<>>} |-> opts[k][1]]

\* How many attributes a sparse record may hold, and a nearly complete one lack.
MaxSparse == 2

RECURSIVE FieldSetsUpTo(_)
FieldSetsUpTo(n) ==
    IF n = 0 THEN {{}}
    ELSE LET smaller == FieldSetsUpTo(n - 1)
         IN  smaller \cup {S \cup {f} : S \in smaller, f \in Fields}

\* The record holding the attributes S, those of T at their alternative value
\* and the others at the value the default table also has.
RecordOn(S, T) == [k \in S |-> IF k \in T THEN AltValues[k] ELSE Defaults[k]]

\* Records with at most MaxSparse attributes (the empty record included), each
\* at its default or its alternative value.
SparseRecords ==
    UNION {{RecordOn(S, T) : T \in SUBSET S} : S \in FieldSetsUpTo(MaxSparse)}

\* Records that lack at most MaxSparse attributes (the complete records
\* included), all at the default or all at the alternative value.
NearlyCompleteRecords ==
    UNION {{RecordOn(Fields \ A, {}), RecordOn(Fields \ A, Fields \ A)} :
           A \in FieldSetsUpTo(MaxSparse)}

\* Records over the six attributes the fraud predicates read, on both sides of
\* every threshold, each attribute present or absent.
FraudRecords ==
    {MakeRecord([income |-> i, age |-> a, employment_length |-> e,
                 credit_score |-> c, credit_history_length |-> h,
                 recent_inquiries |-> q]) :
        i \in {<<>>, <<1000000>>, <<1500000>>, <<2500000>>},
        a \in {<<>>, <<22>>, <<25>>},
        e \in {<<>>, <<5>>, <<10>>},
        c \in {<<>>, <<800>>, <<820>>},
        h \in {<<>>, <<10>>, <<20>>},
        q \in {<<>>, <<8>>, <<9>>}}

\* The form of show_application_analysis filled as in the end-to-end example.
EndToEndRecord ==
    [age |-> 22, income |-> 2500000, employment_length |-> 5,
     industry_risk |-> "High", geographic_risk |-> "Low",
     late_payments_90d |-> 0, credit_utilization |-> 15,
     recent_inquiries |-> 1, credit_score |-> 820,
     credit_history_length |-> 10]

Applications ==
    SparseRecords \cup NearlyCompleteRecords \cup FraudRecords \cup {EndToEndRecord}

\* Records over the eight attributes the scorers read, one value in every
\* band of every attribute, each attribute present or absent.
ScoringRecords ==
    {MakeRecord([late_payments_90d |-> l, credit_utilization |-> u,
                 income |-> i, debt_to_income |-> t, employment_length |-> e,
                 property_ownership |-> p, industry_risk |-> r,
                 geographic_risk |-> g]) :
        l \in {<<>>, << -1 >>, <<0>>, <<1>>, <<2>>, <<3>>, <<4>>, <<5>>, <<6>>},
        u \in {<<>>, <<15>>, <<30>>, <<90>>},
        i \in {<<>>, <<200000>>, <<800000>>, <<1500000>>},
        t \in {<<>>, <<10>>, <<40>>, <<60>>},
        e \in {<<>>, <<10>>, <<70>>, <<110>>},
        p \in {<<>>, <<"Owned">>, <<"Rented">>},
        r \in {<<>>, <<"Low">>, <<"Medium">>, <<"High">>},
        g \in {<<>>, <<"Low">>, <<"High">>}}

\* The draws of np.random.uniform(0, 0.2) that are followed, in 1e-5: the ends
\* of the range, the draws that land a score on a threshold, and draws just
\* above those.
UDraws == {0, 5000, 5003, 10000, 10002, 15000, 15003, 19999}

---------------------------------------------------------------------------
(* The state machine of one scorer and one caller's record.                *)

\* No call has returned yet.
NoResult == [success |-> FALSE]

ScorerInit(records) ==
    /\ input_data \in records
    /\ ensemble_weights = InitialWeights
    /\ credit_result = NoResult
    /\ fraud_result = NoResult

BatchIdle ==
    /\ df = <<>>
    /\ results = <<>>
    /\ scores = <<>>

KsIdle ==
    /\ y_true = <<>>
    /\ y_pred = <<>>
    /\ ks_rank = <<>>
    /\ ks_result = [returned |-> FALSE]

\* psi_from_scores has not been called; bins is its default.
PsiIdle ==
    /\ expected_scores = <<>>
    /\ actual_scores = <<>>
    /\ bins = 10
    /\ psi_result = [returned |-> FALSE]

\* scorer._ensure_required_fields(input_data): fills the caller's dict in place
Ensure ==
    /\ input_data' = EnsureRequiredFields(input_data)
    /\ UNCHANGED <<ensemble_weights, credit_result, fraud_result>>
    /\ UNCHANGED <<batchVars, ksVars, psiVars>>

\* credit_result = scorer.predict_credit_risk(input_data): line 160 fills the
\* caller's dict in place, the rest reads it and self.ensemble_weights
Predict ==
    /\ input_data' = EnsureRequiredFields(input_data)
    /\ credit_result' = CreditDecision(input_data', ensemble_weights)
    /\ UNCHANGED <<ensemble_weights, fraud_result>>
    /\ UNCHANGED <<batchVars, ksVars, psiVars>>

\* fraud_result = scorer.detect_advanced_fraud(input_data), with the draw u
DetectFraud ==
    \E u \in UDraws :
        /\ fraud_result' = detect_advanced_fraud(input_data, u)
        /\ UNCHANGED <<input_data, ensemble_weights, credit_result>>
        /\ UNCHANGED <<batchVars, ksVars, psiVars>>

Init == ScorerInit(Applications) /\ BatchIdle /\ KsIdle /\ PsiIdle

Next == Ensure \/ Predict \/ DetectFraud

Spec == Init /\ [][Next]_vars

InitScore == ScorerInit(ScoringRecords) /\ BatchIdle /\ KsIdle /\ PsiIdle

NextScore == Ensure \/ Predict

SpecScore == InitScore /\ [][NextScore]_vars

---------------------------------------------------------------------------
(* show_batch_processing: the loop over the rows of the uploaded frame.    *)

\* How many rows an uploaded frame may hold.
MaxBatch == 3

\* The columns of the uploaded files that are followed. Every row of a frame
\* has all the columns of the frame.
BatchColumnSets ==
    {{"late_payments_90d", "industry_risk"},
     {"age", "income", "employment_length"}}

RowsOn(columns) == {RecordOn(columns, T) : T \in SUBSET columns}

FramesOn(columns) ==
    UNION {[1..n -> RowsOn(columns)] : n \in 0..MaxBatch}

Dataframes == UNION {FramesOn(columns) : columns \in BatchColumnSets}

\* The i-th (_, row) of enumerate(df.iterrows()), counted from 1.
RowAt(frame, i) == frame[i]

\* input_data = dict(row): a fresh dict with the row's columns
DictOfRow(row) == [k \in DOMAIN row |-> row[k]]

\* The dict appended to results with the decision put first (results.insert(0, .)).
AppendResultInFront(list, credit, fraud) ==
    << [predicted_score     |-> credit.credit_score,
        risk_level          |-> credit.risk_level,
        default_probability |-> credit.default_probability,
        is_fraud            |-> fraud.is_fraud,
        decision            |-> IF credit.risk_level \in {"Excellent", "Good"}
                                   /\ ~fraud.is_fraud
                                THEN "Approved" ELSE "Review Required"] >> \o list

\* results.append({...})
AppendResult(list, credit, fraud) ==
    Append(list,
           [predicted_score     |-> credit.credit_score,
            risk_level          |-> credit.risk_level,
            default_probability |-> credit.default_probability,
            is_fraud            |-> fraud.is_fraud,
            decision            |-> IF credit.risk_level \in {"Excellent", "Good"}
                                       /\ ~fraud.is_fraud
                                    THEN "Approved" ELSE "Review Required"])

\* One turn of the loop: the row after those already processed is copied to a
\* dict, scored (which fills the dict), checked for fraud with the draw u, and
\* its decision appended.
BatchIteration ==
    /\ Len(results) < Len(df)
    /\ \E u \in UDraws :
        /\ input_data' = EnsureRequiredFields(DictOfRow(RowAt(df, Len(results) + 1)))
        /\ credit_result' = CreditDecision(input_data', ensemble_weights)
        /\ fraud_result' = detect_advanced_fraud(input_data', u)
        /\ results' = AppendResult(results, credit_result', fraud_result')
        /\ scores' = Append(scores, credit_result'.credit_score)
    /\ UNCHANGED <<df, ensemble_weights>>
    /\ UNCHANGED <<ksVars, psiVars>>

\* The dict with no key.
EmptyRecord == [k \in {} |-> 0]

InitBatch ==
    /\ df \in Dataframes
    /\ results = <<>>
    /\ scores = <<>>
    /\ input_data = EmptyRecord
    /\ ensemble_weights = InitialWeights
    /\ credit_result = NoResult
    /\ fraud_result = NoResult
    /\ KsIdle
    /\ PsiIdle

NextBatch == BatchIteration

SpecBatch == InitBatch /\ [][NextBatch]_vars

---------------------------------------------------------------------------
(* AdvancedMetrics.ks_statistic                                            *)

\* How many labels, and how many scores, a call is given.
MaxN == 3

LabelValues == {0, 1, 2}

ScoreValues == {1, 2, 3}

ListsOver(values) == UNION {[1..n -> values] : n \in 0..MaxN}

\* The row orders sort_values("p", ascending=False) may leave: every
\* permutation of the rows with the scores descending. The order of rows with
\* equal scores is the sort algorithm's (quicksort, not stable).
DescendingOrders(p) ==
    {r \in [1..Len(p) -> 1..Len(p)] :
        /\ \A i, j \in 1..Len(p) : i # j => r[i] # r[j]
        /\ \A i \in 1..(Len(p) - 1) : p[r[i]] >= p[r[i + 1]]}

\* df["y"].nunique()
NUnique(y) == Cardinality({y[i] : i \in 1..Len(y)})

\* (df["y"] == label).sum()
RECURSIVE CountLabel(_, _, _)
CountLabel(y, label, n) ==
    IF n = 0 THEN 0
    ELSE CountLabel(y, label, n - 1) + (IF y[n] = label THEN 1 ELSE 0)

\* (df["y"] == label).cumsum() at row k of the sorted frame
RECURSIVE CumSum(_, _, _, _)
CumSum(y, rank, label, k) ==
    IF k = 0 THEN 0
    ELSE CumSum(y, rank, label, k - 1) + (IF y[rank[k]] = label THEN 1 ELSE 0)

\* (df["cum_pos"] - df["cum_neg"]).abs().max() as the numerator over the
\* common denominator pos * neg, where pos = max(1, #1) and neg = max(1, #0):
\* cum_pos - cum_neg at row k is (cp * neg - cn * pos) / (pos * neg).
RECURSIVE MaxAbsGap(_, _, _, _, _)
MaxAbsGap(y, rank, pos, neg, k) ==
    IF k = 0 THEN 0
    ELSE LET diff == CumSum(y, rank, 1, k) * neg - CumSum(y, rank, 0, k) * pos
             gap  == IF diff < 0 THEN 0 - diff ELSE diff
         IN  Max(gap, MaxAbsGap(y, rank, pos, neg, k - 1))

\* KsTryBody without the return for fewer than two label classes.
KsTryBodyNoClassCheck(y, rank) ==
    LET pos == Max(1, CountLabel(y, 1, Len(y)))
        neg == Max(1, CountLabel(y, 0, Len(y)))
    IN  [num |-> MaxAbsGap(y, rank, pos, neg, Len(y)), den |-> pos * neg]

\* The body of the try block on the frame sorted as rank: the value returned
\* as the fraction num / den.
KsTryBody(y, rank) ==
    IF NUnique(y) < 2
    THEN [num |-> 0, den |-> 1]
    ELSE LET pos == Max(1, CountLabel(y, 1, Len(y)))
             neg == Max(1, CountLabel(y, 0, Len(y)))
         IN  [num |-> MaxAbsGap(y, rank, pos, neg, Len(y)), den |-> pos * neg]

\* pd.DataFrame({"y": y_true, "p": y_pred}) raises ValueError when the two
\* lists differ in length.
FrameRaises(y, p) == Len(y) # Len(p)

\* ks_statistic(y_true, y_pred) with the sorted order rank: the except clause
\* returns 0.0 for whatever the try block raises.
ks_statistic(y, p, rank) ==
    IF FrameRaises(y, p)
    THEN [returned |-> TRUE, raised |-> FALSE, num |-> 0, den |-> 1]
    ELSE [returned |-> TRUE, raised |-> FALSE,
          num |-> KsTryBody(y, rank).num, den |-> KsTryBody(y, rank).den]

KsStatistic ==
    /\ \E rank \in (IF FrameRaises(y_true, y_pred) THEN {<<>>}
                    ELSE DescendingOrders(y_pred)) :
        /\ ks_rank' = rank
        /\ ks_result' = ks_statistic(y_true, y_pred, rank)
    /\ UNCHANGED <<y_true, y_pred>>
    /\ UNCHANGED <<scorerVars, batchVars, psiVars>>

InitKs ==
    /\ y_true \in ListsOver(LabelValues)
    /\ y_pred \in ListsOver(ScoreValues)
    /\ ks_rank = <<>>
    /\ ks_result = [returned |-> FALSE]
    /\ input_data = EmptyRecord
    /\ ensemble_weights = InitialWeights
    /\ credit_result = NoResult
    /\ fraud_result = NoResult
    /\ BatchIdle
    /\ PsiIdle

NextKs == KsStatistic

SpecKs == InitKs /\ [][NextKs]_vars

---------------------------------------------------------------------------
(* AdvancedMetrics.psi_from_scores                                         *)
(* Scores are integers. The quantile edges of q buckets are kept multiplied *)
(* by q, which makes them integers; a score x is compared with them as      *)
(* x * q. The bucket numbers asked for are powers of two, for which the     *)
(* float arithmetic of the quantiles is exact.                              *)

\* How long the two score lists may be.
MaxPsiLen == 3

ExpectedValues == {2, 3, 4}

ActualValues == {1, 3, 5}

BinChoices == {2, 4}

ScoreListsOver(values) == UNION {[1..n -> values] : n \in 0..MaxPsiLen}

\* The element at position j (from 0) of the list s in ascending order.
KthSmallest(s, j) ==
    CHOOSE v \in {s[i] : i \in DOMAIN s} :
        /\ Cardinality({i \in DOMAIN s : s[i] <= v}) > j
        /\ Cardinality({i \in DOMAIN s : s[i] < v}) <= j

\* e.quantile(k / q) with linear interpolation, times q: the position
\* (n - 1) * k / q lies at lo plus the fraction r / q of the next step.
QuantileEdge(e, q, k) ==
    LET pos == (Len(e) - 1) * k
        lo  == pos \div q
        r   == pos % q
    IN  IF r = 0 THEN KthSmallest(e, lo) * q
        ELSE KthSmallest(e, lo) * q
                 + r * (KthSmallest(e, lo + 1) - KthSmallest(e, lo))

\* pd.qcut(e, q=bins, duplicates="drop", retbins=True)[1]: the q + 1 quantile
\* edges with the duplicates dropped, as a set
QcutEdges(e, q) == {QuantileEdge(e, q, k) : k \in 0..q}

\* The bucket pd.cut(., bins=edges, include_lowest=True) gives the score x:
\* bucket i is (edge i, edge i + 1], the lowest edge belongs to bucket 1, and
\* 0 stands for NaN, which a score outside the edges gets.
CutBucket(x, q, edges) ==
    LET below == Cardinality({b \in edges : b < x * q})
    IN  IF \A b \in edges : b < x * q THEN 0
        ELSE IF below = 0
             THEN (IF x * q \in edges /\ Cardinality(edges) > 1 THEN 1 ELSE 0)
             ELSE below

\* value_counts() before normalising: how many scores of s fall in bucket i
BucketCount(s, q, edges, i) ==
    Cardinality({j \in DOMAIN s : CutBucket(s[j], q, edges) = i})

\* the scores of s that got a bucket: what value_counts(normalize=True)
\* divides by
Counted(s, q, edges) ==
    Cardinality({j \in DOMAIN s : CutBucket(s[j], q, edges) # 0})

\* psi_vals.sum() is 0.0: no score of a got a bucket, so a_pct is 0 / 0 = NaN
\* in every bucket and sum() skips every term; or a_pct equals e_pct in every
\* bucket (both after replace(0, 1e-6)), the only way a term
\* (a - e) * log(a / e) is 0.
PsiSumIsZero(e, a, q) ==
    LET edges == QcutEdges(e, q)
        en    == Counted(e, q, edges)
        an    == Counted(a, q, edges)
    IN  \/ an = 0
        \/ \A i \in 1..(Cardinality(edges) - 1) :
               BucketCount(a, q, edges, i) * en = BucketCount(e, q, edges, i) * an

\* What psi_from_scores(e, a, bins=q) can return: None, 0.0 ("Zero") or a
\* positive float ("Positive"). With one distinct expected score qcut leaves a
\* single edge and no bucket; what pandas then does depends on its release:
\* it raises (None) or gives empty proportions (0.0).
psi_from_scores(e, a, q) ==
    IF Len(e) = 0 \/ Len(a) = 0 THEN {"None"}
    ELSE IF Cardinality(QcutEdges(e, q)) < 2 THEN {"None", "Zero"}
    ELSE IF PsiSumIsZero(e, a, q) THEN {"Zero"}
    ELSE {"Positive"}

\* psi_result = AdvancedMetrics.psi_from_scores(expected_scores, actual_scores, bins)
PsiFromScores ==
    /\ \E value \in psi_from_scores(expected_scores, actual_scores, bins) :
           psi_result' = [returned |-> TRUE, value |-> value]
    /\ UNCHANGED <<expected_scores, actual_scores, bins>>
    /\ UNCHANGED <<scorerVars, batchVars, ksVars>>

InitPsi ==
    /\ expected_scores \in ScoreListsOver(ExpectedValues)
    /\ actual_scores \in ScoreListsOver(ActualValues)
    /\ bins \in BinChoices
    /\ psi_result = [returned |-> FALSE]
    /\ input_data = EmptyRecord
    /\ ensemble_weights = InitialWeights
    /\ credit_result = NoResult
    /\ fraud_result = NoResult
    /\ BatchIdle
    /\ KsIdle

NextPsi == PsiFromScores

SpecPsi == InitPsi /\ [][NextPsi]_vars

---------------------------------------------------------------------------
(* Properties of the scorer.                                               *)

InScoreRange(x) == 300 <= x /\ x <= 850

\* C1: whatever the record, predict_credit_risk returns a credit_score in
\* [300, 850] and a behavioral, financial and stability score in [300, 850].
C1_ScoresInRange ==
    credit_result.success =>
        /\ InScoreRange(credit_result.credit_score)
        /\ InScoreRange(credit_result.component_scores.behavioral_score)
        /\ InScoreRange(credit_result.component_scores.financial_score)
        /\ InScoreRange(credit_result.component_scores.stability_score)

\* C1 witness: the record of the lowest bands has been scored.
C1_Witness ==
    /\ credit_result.success
    /\ credit_result.component_scores.behavioral_score = 550
    /\ credit_result.component_scores.financial_score = 580
    /\ credit_result.component_scores.stability_score = 615
    /\ credit_result.credit_score = 531

TierNames == {"Excellent", "Good", "Medium", "Watch", "High"}

\* The tier the documented thresholds give to an integer score, as the one
\* name whose condition holds.
TierOf(score) ==
    CHOOSE t \in TierNames :
        /\ (t = "Excellent") <=> (score >= 750)
        /\ (t = "Good")      <=> (700 <= score /\ score < 750)
        /\ (t = "Medium")    <=> (650 <= score /\ score < 700)
        /\ (t = "Watch")     <=> (600 <= score /\ score < 650)
        /\ (t = "High")      <=> (score < 600)

\* Final scores (hundredths) on and just below each threshold, and the ends
\* of the range.
ThresholdScores ==
    {30000, 59999, 60000, 64999, 65000, 69999, 70000, 74900, 74999, 75000, 85000}

\* C2: the risk_level returned is one of the five tiers, it is the tier the
\* thresholds 750 / 700 / 650 / 600 give to the returned integer credit_score,
\* and it is the category create_risk_distribution gives to that credit_score;
\* the classification of predict_credit_risk puts 750 in Excellent and 749 in
\* Good, and agrees with the thresholds on every boundary.
C2_TierMatchesThresholds ==
    /\ credit_result.success =>
        /\ credit_result.risk_level \in TierNames
        /\ credit_result.risk_level = TierOf(credit_result.credit_score)
        /\ credit_result.risk_level = RiskCategory(credit_result.credit_score)
    /\ RiskLevel(75000) = "Excellent"
    /\ RiskLevel(74900) = "Good"
    /\ \A f \in ThresholdScores :
        /\ RiskLevel(f) = TierOf(IntScore(f))
        /\ RiskLevel(f) = RiskCategory(IntScore(f))

\* C2 witness: a record scored 749 has been classified Good.
C2_Witness ==
    /\ credit_result.success
    /\ credit_result.credit_score = 749
    /\ credit_result.risk_level = "Good"

\* The value of attribute k that the documentation gives a record: its own,
\* or the default of the table when it has none.
ValueOf(d, k) == IF k \in DOMAIN d THEN d[k] ELSE Defaults[k]

\* C3: ensure_required_fields inserts the table default for every absent
\* attribute of the table and keeps every present value; the result holds all
\* 21 attributes of the table, and a second application changes nothing.
C3_EnsureFillsAndKeeps ==
    LET once == EnsureRequiredFields(input_data)
    IN  /\ Cardinality(Fields) = 21
        /\ Fields \subseteq DOMAIN once
        /\ DOMAIN once = (DOMAIN input_data) \cup Fields
        /\ \A k \in DOMAIN input_data : once[k] = input_data[k]
        /\ \A k \in Fields \ DOMAIN input_data : once[k] = Defaults[k]
        /\ EnsureRequiredFields(once) = once

\* C3 witness: _ensure_required_fields has run on the record {age: 22}, which
\* now holds its own age and the defaults of the other twenty attributes.
C3_Witness ==
    /\ credit_result = NoResult
    /\ fraud_result = NoResult
    /\ DOMAIN input_data = Fields
    /\ input_data.age = 22
    /\ \A k \in Fields \ {"age"} : input_data[k] = Defaults[k]

\* C4 as claimed: a scoring call leaves the caller's record and the ensemble
\* weights as they were, and the weights are 0.40 / 0.35 / 0.25, summing to 1.
C4_ScoringCallIsPure ==
    [][(Predict \/ DetectFraud) =>
          /\ input_data' = input_data
          /\ ensemble_weights' = ensemble_weights
          /\ ensemble_weights' = InitialWeights
          /\ ensemble_weights'.behavioral_score + ensemble_weights'.financial_score
                 + ensemble_weights'.stability_score = 100]_vars

\* The names of the four predicates, in declaration order.
PatternNames ==
    <<"Extreme Income for Age", "High Income with Short Employment",
      "Perfect Score with Short History", "Excessive Credit Inquiries">>

\* Whether predicate i (a = 1 .. d = 4) holds of record d, missing attributes
\* taken at the default of the table.
PredicateHolds(d, i) ==
    CASE i = 1 -> ValueOf(d, "income") > 2000000 /\ ValueOf(d, "age") < 25
      [] i = 2 -> ValueOf(d, "employment_length") < 10 /\ ValueOf(d, "income") > 1000000
      [] i = 3 -> ValueOf(d, "credit_score") > 800 /\ ValueOf(d, "credit_history_length") < 20
      [] i = 4 -> ValueOf(d, "recent_inquiries") > 8

TruePredicates(d) == {i \in 1..4 : PredicateHolds(d, i)}

\* The names of the predicates of P, in declaration order.
NamesInOrder(P) ==
    LET Test(name) == \E i \in P : PatternNames[i] = name
    IN  SelectSeq(PatternNames, Test)

\* C5: fraud_indicators is the number of the four predicates that hold and
\* fraud_patterns lists their names in declaration order; the record with
\* recent_inquiries = 9 and nothing else away from its default yields one
\* indicator and the pattern Excessive Credit Inquiries.
C5_FraudIndicators ==
    fraud_result.success =>
        /\ fraud_result.fraud_indicators = Cardinality(TruePredicates(input_data))
        /\ fraud_result.fraud_patterns = NamesInOrder(TruePredicates(input_data))
        /\ (/\ ValueOf(input_data, "recent_inquiries") = 9
            /\ \A k \in Fields \ {"recent_inquiries"} :
                   ValueOf(input_data, k) = Defaults[k])
           => /\ fraud_result.fraud_indicators = 1
              /\ fraud_result.fraud_patterns = <<"Excessive Credit Inquiries">>

\* C5 witness: the fraud detector has run on the record {recent_inquiries: 9}.
C5_Witness ==
    /\ fraud_result.success
    /\ input_data = [k \in {"recent_inquiries"} |-> 9]
    /\ fraud_result.fraud_indicators = 1

\* C6 as claimed: in the returned assessment is_fraud holds exactly when the
\* returned fraud_score is > 0.65, and confidence is High exactly when it is
\* > 0.8, Medium when it is > 0.6 and not > 0.8, Low otherwise.
C6_FieldsConsistent ==
    fraud_result.success =>
        /\ fraud_result.is_fraud <=> (fraud_result.fraud_score > 6500)
        /\ (fraud_result.confidence = "High") <=> (fraud_result.fraud_score > 8000)
        /\ (fraud_result.confidence = "Medium") <=>
               (fraud_result.fraud_score > 6000 /\ fraud_result.fraud_score <= 8000)
        /\ (fraud_result.confidence = "Low") <=> (fraud_result.fraud_score <= 6000)

\* C7: the default_probability returned lies in the sub-range of the tier
\* returned: Excellent [1, 5], Good [5, 15], Medium [15, 25], Watch [25, 35],
\* High [35, 50] (tenths of a percent here).
C7_DefaultProbInTierRange ==
    credit_result.success =>
        LET p == credit_result.default_probability
            t == credit_result.risk_level
        IN  /\ t = "Excellent" => (10 <= p /\ p <= 50)
            /\ t = "Good"      => (50 <= p /\ p <= 150)
            /\ t = "Medium"    => (150 <= p /\ p <= 250)
            /\ t = "Watch"     => (250 <= p /\ p <= 350)
            /\ t = "High"      => (350 <= p /\ p <= 500)

\* C7 witness: a record of the Medium tier has been scored, where the clamp
\* to 25 is what decides the probability.
C7_Witness ==
    /\ credit_result.success
    /\ credit_result.risk_level = "Medium"
    /\ credit_result.default_probability = 250

\* The caller's record is the end-to-end example, as built or as filled.
IsEndToEnd ==
    \/ input_data = EndToEndRecord
    \/ input_data = [k \in Fields |-> ValueOf(EndToEndRecord, k)]

\* C8: on the end-to-end example the fraud detector reports three indicators,
\* the patterns of predicates (a), (b) and (c), and the credit decision has a
\* behavioral score >= 650 and final_score = ensemble_score - 25 + 10.
C8_EndToEndExample ==
    IsEndToEnd =>
        /\ fraud_result.success =>
            /\ fraud_result.fraud_indicators = 3
            /\ fraud_result.fraud_patterns =
                   <<"Extreme Income for Age", "High Income with Short Employment",
                     "Perfect Score with Short History">>
        /\ credit_result.success =>
            /\ credit_result.component_scores.behavioral_score >= 650
            /\ credit_result.component_scores.final_score =
                   credit_result.component_scores.ensemble_score - 2500 + 1000

\* C8 witness: both calls have returned on the end-to-end example.
C8_Witness ==
    /\ IsEndToEnd
    /\ fraud_result.success
    /\ credit_result.success
    /\ credit_result.credit_score = 683
    /\ fraud_result.fraud_indicators = 3

---------------------------------------------------------------------------
(* Properties of the batch loop.                                           *)

\* The three fields of a decision that the batch keeps.
SameDecision(row, decision) ==
    /\ row.predicted_score = decision.credit_score
    /\ row.risk_level = decision.risk_level
    /\ row.default_probability = decision.default_probability

\* C9: the batch loop holds one decision per processed row, in the order of
\* the rows, N of them once all N rows are processed; the i-th is what a fresh scorer
\* returns for the i-th row alone, and also for that row already filled with
\* the defaults; scoring again the record the loop has just filled returns the
\* decision it returned.
C9_BatchDecisionsIndependent ==
    /\ Len(results) <= Len(df)
    /\ Len(scores) = Len(results)
    /\ \A i \in 1..Len(results) :
        /\ SameDecision(results[i], predict_credit_risk(df[i], InitialWeights))
        /\ SameDecision(results[i],
                        predict_credit_risk(EnsureRequiredFields(df[i]), InitialWeights))
        /\ scores[i] = predict_credit_risk(df[i], InitialWeights).credit_score
    /\ credit_result.success =>
           predict_credit_risk(input_data, ensemble_weights) = credit_result

\* C9 witness: a batch of at least two rows has ended, and its first two
\* decisions differ.
C9_Witness ==
    /\ Len(df) >= 2
    /\ Len(results) = Len(df)
    /\ results[1].risk_level = "Watch"
    /\ results[2].risk_level = "Medium"

---------------------------------------------------------------------------
(* Properties of ks_statistic.                                             *)

\* The rows among the first k of the ranking whose label is the given one.
RankedWith(label, k) == {j \in 1..k : y_true[ks_rank[j]] = label}

\* |cumulative positive fraction - cumulative negative fraction| after the
\* first k rows of the ranking, times the product of the two class sizes (a
\* class of size 0 counted as 1).
GapAt(k) ==
    LET pos  == Cardinality({i \in 1..Len(y_true) : y_true[i] = 1})
        neg  == Cardinality({i \in 1..Len(y_true) : y_true[i] = 0})
        diff == Cardinality(RankedWith(1, k)) * (IF neg = 0 THEN 1 ELSE neg)
                - Cardinality(RankedWith(0, k)) * (IF pos = 0 THEN 1 ELSE pos)
    IN  IF diff < 0 THEN 0 - diff ELSE diff

\* C10: ks_statistic never raises; it returns 0.0 when the labels have fewer
\* than two distinct values (the empty input included); its value is in
\* [0, 1]; and for labels of two or more classes with as many scores it is the
\* largest absolute gap between the cumulative positive and the cumulative
\* negative fraction along a ranking by descending score.
C10_KsStatistic ==
    ks_result.returned =>
        /\ ~ks_result.raised
        /\ ks_result.den > 0
        /\ 0 <= ks_result.num /\ ks_result.num <= ks_result.den
        /\ NUnique(y_true) < 2 => ks_result.num = 0
        /\ (NUnique(y_true) >= 2 /\ Len(y_true) = Len(y_pred)) =>
            LET n   == Len(y_true)
                pos == Cardinality({i \in 1..n : y_true[i] = 1})
                neg == Cardinality({i \in 1..n : y_true[i] = 0})
            IN  /\ Len(ks_rank) = n
                /\ {ks_rank[i] : i \in 1..n} = 1..n
                /\ \A i, j \in 1..n : i < j => y_pred[ks_rank[i]] >= y_pred[ks_rank[j]]
                /\ ks_result.den = (IF pos = 0 THEN 1 ELSE pos) * (IF neg = 0 THEN 1 ELSE neg)
                /\ \E k \in 1..n : GapAt(k) = ks_result.num
                /\ \A k \in 1..n : GapAt(k) <= ks_result.num

\* C10 witness: ks_statistic has returned a value strictly between 0 and 1 for
\* labels of both classes.
C10_Witness ==
    /\ ks_result.returned
    /\ Len(y_true) = Len(y_pred)
    /\ 0 \in {y_true[i] : i \in 1..Len(y_true)}
    /\ 1 \in {y_true[i] : i \in 1..Len(y_true)}
    /\ 0 < ks_result.num
    /\ ks_result.num < ks_result.den

---------------------------------------------------------------------------
(* Properties of the scoring bands and of the final score.                 *)

\* The adjustment the documentation gives a late_payments_90d value: +50 at
\* 0, +20 in the band 1-2, -60 above 5, none for any other value.
DocumentedLateAdjustment(late) ==
    IF late = 0 THEN 50
    ELSE IF 1 <= late /\ late <= 2 THEN 20
    ELSE IF late > 5 THEN 0 - 60
    ELSE 0

\* The adjustment the documentation gives a credit_utilization (hundredths).
DocumentedUtilizationAdjustment(utilization) ==
    IF utilization < 20 THEN 30
    ELSE IF utilization < 40 THEN 15
    ELSE IF utilization > 80 THEN 0 - 40
    ELSE 0

\* C11 as claimed: the behavioral score is the base 650 with +50 only for 0
\* late payments, +20 only for 1-2, -60 only for more than 5 and no
\* adjustment for any other value (3, 4, 5 and the negative ones), plus the
\* utilization adjustment.
C11_LateBandsAsDocumented ==
    credit_result.success =>
        credit_result.component_scores.behavioral_score =
            650 + DocumentedLateAdjustment(ValueOf(input_data, "late_payments_90d"))
                + DocumentedUtilizationAdjustment(ValueOf(input_data, "credit_utilization"))

\* C12 as claimed: the final_score stored in component_scores is an integer
\* in [300, 850], not a fractional value.
C12_FinalScoreIsInteger ==
    credit_result.success =>
        /\ credit_result.component_scores.final_score % 100 = 0
        /\ 30000 <= credit_result.component_scores.final_score
        /\ credit_result.component_scores.final_score <= 85000

\* C12 as amended: the final_score stored in component_scores is the clamped
\* post-adjustment result in [300, 850], a multiple of 0.25 that may be
\* fractional; the integer of the decision is credit_score, its integer part.
C12_FinalScoreIsQuarterPoint ==
    credit_result.success =>
        /\ 30000 <= credit_result.component_scores.final_score
        /\ credit_result.component_scores.final_score <= 85000
        /\ credit_result.component_scores.final_score % 25 = 0
        /\ credit_result.credit_score * 100 <= credit_result.component_scores.final_score
        /\ credit_result.component_scores.final_score < (credit_result.credit_score + 1) * 100

\* C12 witness: the end-to-end example has been scored, with the final score
\* 683.75 and the credit_score 683.
C12_Witness ==
    /\ credit_result.success
    /\ credit_result.component_scores.final_score = 68375
    /\ credit_result.credit_score = 683

\* The sums of one industry and one geographic adjustment, in hundredths.
DocumentedAdjustments ==
    {100 * (i + g) : i \in {0 - 25, 0, 15}, g \in {0 - 20, 0, 10}}

\* C13: the component scores stay in behavioral [550, 730], financial
\* [580, 725] and stability [615, 715], and the final score in
\* [531.75, 749.5]; so no clamp of the final score takes effect (it is the
\* ensemble score plus the adjustments), credit_score is in [531, 749] and
\* risk_level is never Excellent.
C13_ScoresConfined ==
    credit_result.success =>
        LET c == credit_result.component_scores
        IN  /\ 550 <= c.behavioral_score /\ c.behavioral_score <= 730
            /\ 580 <= c.financial_score /\ c.financial_score <= 725
            /\ 615 <= c.stability_score /\ c.stability_score <= 715
            /\ 53175 <= c.final_score /\ c.final_score <= 74950
            /\ c.final_score - c.ensemble_score \in DocumentedAdjustments
            /\ 531 <= credit_result.credit_score /\ credit_result.credit_score <= 749
            /\ credit_result.risk_level # "Excellent"

\* C13 witness: the record of the highest bands has been scored: 730, 725,
\* 715, final score 749.5, tier Good.
C13_Witness ==
    /\ credit_result.success
    /\ credit_result.component_scores.behavioral_score = 730
    /\ credit_result.component_scores.financial_score = 725
    /\ credit_result.component_scores.stability_score = 715
    /\ credit_result.component_scores.final_score = 74950
    /\ credit_result.risk_level = "Good"

---------------------------------------------------------------------------
(* Properties of the fraud flag and of the fallbacks of the predicates.    *)

\* Two draws on the record of the state disagree on is_fraud.
DrawsDisagree ==
    \E u1, u2 \in UDraws :
        detect_advanced_fraud(input_data, u1).is_fraud
            # detect_advanced_fraud(input_data, u2).is_fraud

\* What C14 says of a returned dict, given the bound on the returned
\* fraud_score of a record with at most one indicator: strict or not.
FlagFollowsCount(strict) ==
    fraud_result.success =>
        /\ fraud_result.fraud_indicators <= 1 =>
              /\ ~fraud_result.is_fraud
              /\ fraud_result.confidence = "Low"
              /\ IF strict THEN fraud_result.fraud_score < 4500
                           ELSE fraud_result.fraud_score <= 4500
        /\ fraud_result.fraud_indicators >= 3 =>
              /\ fraud_result.is_fraud
              /\ fraud_result.fraud_score >= 7500
              /\ fraud_result.fraud_score <= 10000
        /\ DrawsDisagree =>
              CountIndicators(FraudPatternTable(input_data), 1) = 2

Defaulted == EnsureRequiredFields(input_data)

\* C15: the fraud predicates give the same fraud_patterns and
\* fraud_indicators on the record as it is and on the record after
\* _ensure_required_fields, and a dict returned earlier still holds what a
\* call on the record held now (after _ensure_required_fields or
\* predict_credit_risk have filled it) would return.
C15_DefaultsDoNotChangeIndicators ==
    /\ CollectPatterns(FraudPatternTable(input_data), 1)
           = CollectPatterns(FraudPatternTable(Defaulted), 1)
    /\ CountIndicators(FraudPatternTable(input_data), 1)
           = CountIndicators(FraudPatternTable(Defaulted), 1)
    /\ fraud_result.success =>
          /\ fraud_result.fraud_patterns
                 = CollectPatterns(FraudPatternTable(input_data), 1)
          /\ fraud_result.fraud_indicators
                 = CountIndicators(FraudPatternTable(input_data), 1)

\* C15 witness: fraud detection ran on a record lacking attributes the
\* predicates read, and predict_credit_risk has filled the record since.
C15_Witness ==
    /\ fraud_result.success
    /\ credit_result.success
    /\ fraud_result.fraud_indicators = 1
    /\ input_data = EnsureRequiredFields([age |-> 22, income |-> 2500000])

---------------------------------------------------------------------------
(* Properties of default_probability as a function of the final score.     *)

\* Scores (hundredths) the score of the state is compared with: a quarter
\* point and a point above it, and the scores around every tier threshold.
ComparedScores(final) == {final + 25, final + 100} \cup ThresholdScores

\* default_probability does not rise from the score of the state to a higher
\* score, nor fall to a lower one.
NonIncreasingAt(final, p) ==
    \A g \in ComparedScores(final) :
        /\ g >= final => DefaultProbability(g) <= p
        /\ g <= final => DefaultProbability(g) >= p

\* What C16 says of a returned dict; exact says whether the Good tier returns
\* (850 - score) / 10 itself or the tenth nearest to it.
ProbabilityByTier(exact) ==
    credit_result.success =>
        LET p     == credit_result.default_probability
            t     == credit_result.risk_level
            final == credit_result.component_scores.final_score
        IN  /\ t = "Medium" => p = 250
            /\ t = "Watch"  => p = 350
            /\ t = "High"   => p = 500
            /\ t = "Good"   =>
                  /\ 100 < p /\ p <= 150
                  /\ IF exact THEN 100 * p = 85000 - final
                     ELSE /\ 100 * p - (85000 - final) <= 50
                          /\ (85000 - final) - 100 * p <= 50
            /\ NonIncreasingAt(final, p)

---------------------------------------------------------------------------
(* Properties of the buckets of psi_from_scores.                           *)

\* The scores of actual_scores that lie below the smallest or above the
\* largest expected score.
OutsideExpected ==
    {j \in DOMAIN actual_scores :
        \/ \A i \in DOMAIN expected_scores : actual_scores[j] < expected_scores[i]
        \/ \A i \in DOMAIN expected_scores : actual_scores[j] > expected_scores[i]}

\* C17 as claimed: when psi_from_scores returns a number (and the expected
\* scores give at least one bucket), every score of
\* actual_scores was counted in a bucket, those outside the range of
\* expected_scores included, so the bucket counts add up to
\* len(actual_scores); and if every actual score lies outside the range of
\* the expected scores the PSI returned is not 0.
C17_EveryActualScoreCounted ==
    (psi_result.returned /\ psi_result.value # "None"
        /\ Cardinality(QcutEdges(expected_scores, bins)) > 1) =>
        /\ Counted(actual_scores, bins, QcutEdges(expected_scores, bins))
               = Len(actual_scores)
        /\ OutsideExpected = DOMAIN actual_scores => psi_result.value # "Zero"

=============================================================================
